---- MODULE Spec2Model ----
(***************************************************************************)
(* Vector ingestion and similarity search of the FastAPI stack:            *)
(*   - EmbeddingService (app/services/embedding_service.py)                *)
(*   - DatabaseService  (app/services/database_service.py)                 *)
(*   - the /ai-test workflow (app/routes/ai.py, app/main.py)               *)
(*   - the book ingestion script (tests/test_vector_with_book.py)          *)
(*                                                                         *)
(* Texts are sequences of one-character strings.  A vector of the store is *)
(* a record [dim, xy]: dim is the length of the Python list, xy its first  *)
(* two coordinates in fixed point with scale UNIT (every further           *)
(* coordinate is 0), so a vector of Euclidean norm UNIT is L2-normalized.  *)
(* Similarities are integers in units of 1/SIM_SCALE.                      *)
(***************************************************************************)
EXTENDS Integers, Sequences, FiniteSets, TLC

\* ------------------------------------------------------------------ bounds
NumTasks == 2
MaxRows == 2
MaxDocs == 2
MaxChunks == 2
MaxLines == 6
MaxCalls == 2
MaxBatch == 2
NumClients == 3
MaxPool == 1
MaxClock == 2
MaxCached == 2
MaxAttempts == 4

\* --------------------------------------------------------------- constants
EMBEDDING_DIM == 1024
UNIT == 5
SIM_SCALE == 50
SEARCH_LIMIT == 5
DEFAULT_LIMIT == 5
DEFAULT_CHUNK_SIZE == 1000
DEFAULT_OVERLAP == 200
TITLE_MAX_LEN == 50
MIN_STORY_SIZE == 100
OVERLAP_LINES == 5
MIN_RESPONSE_LEN == 10
MAX_RETRIES == 2

Tasks == 1..NumTasks

\* ------------------------------------------------------------------- texts
\* The request bodies and direct arguments the environment may send.
RawTexts ==
    { <<>>,
      <<" ", " ">>,
      <<" ", "a", " ">>,
      <<"b", "<", "<">> }

SpecialChars == {"<", ">", "\"", "]", "[", "\t", "\n"}

\* str.isspace(): true iff the string is non-empty and all whitespace.
IsSpace(v) == Len(v) > 0 /\ \A i \in 1..Len(v) : v[i] \in {" ", "\t", "\n"}

\* `not v or v.isspace()` of the request validator.
IsBlank(v) == Len(v) = 0 \/ IsSpace(v)

RECURSIVE LStrip(_)
LStrip(v) ==
    IF Len(v) > 0 /\ v[1] \in {" ", "\t", "\n"} THEN LStrip(Tail(v)) ELSE v

RECURSIVE RStrip(_)
RStrip(v) ==
    IF Len(v) > 0 /\ v[Len(v)] \in {" ", "\t", "\n"}
    THEN RStrip(SubSeq(v, 1, Len(v) - 1))
    ELSE v

\* str.strip()
Strip(v) == RStrip(LStrip(v))

\* re.sub(r'([<>"\]\[\]\t\n])\1+', r'\1', v): a run of one special
\* character collapses to a single occurrence.
RECURSIVE CollapseSpecial(_)
CollapseSpecial(v) ==
    IF Len(v) < 2 THEN v
    ELSE IF v[1] \in SpecialChars /\ v[2] = v[1]
         THEN CollapseSpecial(Tail(v))
         ELSE <<v[1]>> \o CollapseSpecial(Tail(v))

\* AITestRequest.sanitize_input on an accepted value.
SanitizeInput(v) == CollapseSpecial(Strip(v))

INSTRUCTION == <<"Represent this document for retrieval: ">>

\* enhanced_text = f"Represent this document for retrieval: {text}"
EnhanceText(text) == INSTRUCTION \o text

\* ----------------------------------------------------------------- vectors
NoVector == [dim |-> 0, xy |-> <<0, 0>>]

ZeroVector == [dim |-> EMBEDDING_DIM, xy |-> <<0, 0>>]

\* Directions of norm UNIT the encoder can produce.
UnitDirections ==
    << <<5, 0>>, <<4, 3>>, <<3, 4>>, <<0, 5>>, <<-3, 4>>, <<-5, 0>>, <<0, -5>> >>

CharCode(c) ==
    CASE c = " " -> 1
      [] c = "a" -> 2
      [] c = "b" -> 3
      [] c = "<" -> 4
      [] c = INSTRUCTION[1] -> 5
      [] OTHER -> 0

RECURSIVE TextCode(_)
TextCode(v) ==
    IF Len(v) = 0 THEN 0 ELSE CharCode(v[Len(v)]) + 5 * TextCode(SubSeq(v, 1, Len(v) - 1))

\* model.encode(text, normalize_embeddings=True).tolist(): a deterministic
\* function of the text, EMBEDDING_DIM long and of norm UNIT.
ModelEncode(text) ==
    [dim |-> EMBEDDING_DIM,
     xy  |-> UnitDirections[(TextCode(text) % Len(UnitDirections)) + 1]]

\* ------------------------------------------------------------------- state
VARIABLES
    model,          \* EmbeddingService.model: 0 is None, t > 0 the object task t constructed
    tasks,          \* the coroutines: one /ai-test request or one direct embed_text call
    rows,           \* table ai_test_logs, in insertion order
    nextId,         \* the SERIAL sequence of ai_test_logs
    logCalls,       \* tasks whose create_ai_log call has been made
    result,         \* outcome of the latest DatabaseService call of a store client
    bookChunks,     \* table book_chunks, in insertion order
    ingest,         \* the running store_in_database call
    search,         \* what the latest test_similarity_search query read
    pool,           \* DatabaseService.pool: "none" | "open" | "closed"
    call,           \* the latest DatabaseService call of a client and how it ended
    chunker,        \* the locals of the running chunk_book call
    calls,          \* chunk_book calls made so far
    firstCall,      \* arguments and return value of the first chunk_book call
    batch,          \* a list of texts, embedded in one batch and one by one
    dbpool,         \* the asyncpg pool: its size, free connections, waiting coroutines
    clients,        \* the coroutines that run store operations on the pool
    health,         \* one GET /health request: the statuses collected, the answer
    blob,           \* the clock, the objects of the bucket, the rows that name them
    cache,          \* the cached AI responses by key, the last get
    graph           \* one run of the LangGraph workflow: node, response, metadata

vars == <<model, tasks, rows, nextId, logCalls,
          result, bookChunks, ingest, search, pool, call,
          chunker, calls, firstCall, batch, dbpool, clients,
          health, blob, cache, graph>>

workflowVars == <<model, tasks, logCalls>>
storeVars == <<result>>
ingestVars == <<bookChunks, ingest, search>>
opsVars == <<pool, call>>
chunkVars == <<chunker, calls, firstCall>>
batchVars == <<batch>>
poolVars == <<dbpool, clients>>
healthVars == <<health>>
blobVars == <<blob>>
cacheVars == <<cache>>
graphVars == <<graph>>

\* What the actions of each specification leave alone.
outsideWorkflow == <<storeVars, ingestVars, opsVars, chunkVars, batchVars, poolVars, healthVars, blobVars, cacheVars, graphVars>>
outsideStore == <<workflowVars, ingestVars, opsVars, chunkVars, batchVars, poolVars, healthVars, blobVars, cacheVars, graphVars>>
outsideIngest == <<workflowVars, storeVars, rows, nextId, opsVars, chunkVars, batchVars, poolVars, healthVars, blobVars, cacheVars, graphVars>>
outsideOps == <<workflowVars, storeVars, ingestVars, chunkVars, batchVars, poolVars, healthVars, blobVars, cacheVars, graphVars>>
outsideBatch == <<workflowVars, storeVars, rows, nextId, ingestVars, opsVars, chunkVars, poolVars, healthVars, blobVars, cacheVars, graphVars>>
outsidePool == <<workflowVars, storeVars, rows, nextId, ingestVars, opsVars, chunkVars, batchVars, healthVars, blobVars, cacheVars, graphVars>>
outsideHealth == <<workflowVars, storeVars, rows, nextId, ingestVars, opsVars, chunkVars, batchVars, poolVars, blobVars, cacheVars, graphVars>>
outsideBlob == <<workflowVars, storeVars, rows, nextId, ingestVars, opsVars, chunkVars, batchVars, poolVars, healthVars, cacheVars, graphVars>>
outsideCache == <<workflowVars, storeVars, rows, nextId, ingestVars, opsVars, chunkVars, batchVars, poolVars, healthVars, blobVars, graphVars>>
outsideGraph == <<workflowVars, storeVars, rows, nextId, ingestVars, opsVars, chunkVars, batchVars, poolVars, healthVars, blobVars, cacheVars>>
outsideChunk == <<workflowVars, storeVars, rows, nextId, ingestVars, opsVars, batchVars, poolVars, healthVars, blobVars, cacheVars, graphVars>>

NoModel == 0

IdleTask ==
    [kind      |-> "none",      \* "ai_test" | "direct"
     pc        |-> "idle",
     text      |-> <<>>,        \* request.user_context / the argument of embed_text
     enhanced  |-> <<>>,        \* local enhanced_text of embed_text
     embedding |-> NoVector,    \* value embed_text returned to its caller
     embed     |-> "none",      \* "ok" | "load_failed" | "encode_failed"
     encodes   |-> 0,           \* model.encode invocations of this call
     load      |-> FALSE,       \* this call submitted a SentenceTransformer construction
     cancelAt  |-> "none",      \* pc at which the caller abandoned the task
     error     |-> "none"]

NoRow == [id |-> 0, user_context |-> <<>>, embedding |-> NoVector]

NoCall ==
    [op |-> "none",
     cause |-> "none",          \* why the database call failed, "none" if it did not
     raised |-> FALSE,          \* the call ended in RuntimeError
     id |-> 0,                  \* id asked for or returned
     embedding |-> NoVector, limit |-> 0, min |-> 0,
     list |-> <<>>,             \* list returned
     row |-> NoRow,             \* dict returned, NoRow for None or {}
     count |-> 0]               \* number returned

NoReturn ==
    [success |-> FALSE, chunks |-> <<>>, chunk_count |-> 0,
     avg_chunk_size |-> 0, stories_found |-> 0]

NoInput == [lines |-> <<>>, chunk_size |-> 0, overlap |-> 0]

IdleChunker ==
    [pc |-> "idle",
     lines |-> <<>>, chunk_size |-> 0, overlap |-> 0,
     i |-> 0,                   \* index of the line the for loop is at
     chunks |-> <<>>, stories_found |-> 0,
     current_chunk |-> <<>>, current_size |-> 0,
     first |-> 0, carried |-> 0,
     returned |-> NoReturn]

PoolClients == 1..NumClients

PoolOps == { "create_ai_log", "find_similar_logs" }

NoPool == [size |-> 0, free |-> 0, queue |-> <<>>]

IdleClient == [pc |-> "idle", op |-> "none", last |-> "none"]

\* The services GET /health asks, in the order of the dict literal.
HealthServices == <<"openrouter", "postgres", "redis", "minio", "embedding", "google_ai">>

BlobRequests == 1..NumTasks

Seconds == 1..MaxClock

\* Prompt texts: some contain the separator the key is built with.
CachePrompts == {"a", "a:a", "b"}

\* hashlib.md5(text).hexdigest(), taken as free of collisions: different
\* texts have different digests.
PromptHash(text) == text

\* prompt_hash = md5(f"{system_prompt}:{user_context}"); the key is
\* f"ai_response:{prompt_hash}".
CacheKey(system_prompt, user_context) ==
    "ai_response:" \o PromptHash(system_prompt \o ":" \o user_context)

CacheKeys == { CacheKey(sp, uc) : sp, uc \in CachePrompts }

NoEntry == [system_prompt |-> "", user_context |-> "", ai_result |-> ""]

NoGet == [system_prompt |-> "", user_context |-> "", response |-> NoEntry]

\* What one call of the model leaves in state["response"]: a text of at
\* least 10 characters, a shorter one, nothing, or nothing after an
\* exception.
ModelOutcomes == {"text", "short", "empty", "raised"}

\* initial_state of generate_response_langgraph, before the run.
IdleGraph ==
    [pc |-> "idle", response |-> "", error |-> FALSE,
     validation_passed |-> TRUE, retry_count |-> 0, attempts |-> <<>>]

NoQuery == [embedding |-> NoVector, normalize |-> FALSE]

NoResult ==
    [op |-> "none", status |-> "none", embedding |-> NoVector, limit |-> 0,
     min |-> 0, list |-> <<>>, before |-> 0,
     defaults |-> FALSE]        \* limit and min_similarity were left out of the call

AwaitPoints == {"generate", "loading", "encoding", "save_file", "log", "cache"}

Init ==
    /\ model = NoModel
    /\ tasks = [t \in Tasks |-> IdleTask]
    /\ rows = <<>>
    /\ nextId = 1
    /\ logCalls = {}
    /\ result = NoResult
    /\ bookChunks = <<>>
    /\ ingest = [pc |-> "idle", doc |-> 0, n |-> 0, i |-> 0, startLen |-> 0]
    /\ search = [during |-> 0, of |-> 0, visible |-> {}, returned |-> {}]
    /\ pool = "none"
    /\ call = NoCall
    /\ chunker = IdleChunker
    /\ calls = 0
    /\ graph = IdleGraph
    /\ cache = [store |-> [k \in CacheKeys |-> NoEntry], got |-> NoGet]
    /\ blob = [clock |-> 1,
               objects |-> [n \in Seconds |-> 0],
               reqs |-> [r \in BlobRequests |-> [pc |-> "idle", name |-> 0]],
               rows |-> <<>>]
    /\ health = [pc |-> "idle", containers |-> <<>>, status |-> "none"]
    /\ dbpool = NoPool
    /\ clients = [c \in PoolClients |-> IdleClient]
    /\ batch = [pc |-> "idle", texts |-> <<>>, embeddings |-> <<>>, single |-> <<>>,
                written |-> <<>>, query |-> NoQuery]
    /\ firstCall = [input |-> NoInput, output |-> NoReturn]

\* ------------------------------------------------------- EmbeddingService
\* embed_text lines 91-100: build enhanced_text and submit model.encode to the
\* executor; the coroutine then awaits the job.
SubmitEncode(tk) ==
    [tk EXCEPT !.pc = "encoding",
               !.enhanced = EnhanceText(tk.text),
               !.encodes = tk.encodes + 1]

\* _load_model line 46: the test that decides whether this caller loads.
NeedsLoad(m) == m = NoModel

\* embed_text lines 82-85 up to its first suspension: _load_model either
\* submits a SentenceTransformer construction and awaits it, or falls through
\* to the encode.
EmbedTextEnter(tk, text, m) ==
    IF NeedsLoad(m)
    THEN [tk EXCEPT !.text = text, !.pc = "loading", !.load = TRUE]
    ELSE SubmitEncode([tk EXCEPT !.text = text])

EncodeJobInputShared(t) ==
    tasks[CHOOSE u \in Tasks : tasks[u].pc = "encoding"].enhanced

\* The text the encode job of task t works on: the enhanced_text captured by
\* the lambda of that call.
EncodeJobInput(t) == tasks[t].enhanced

\* embed_text lines 102-107: the encode job returned; the list goes back to the
\* caller.  A direct caller is done, the /ai-test workflow goes on to step 3.
EncodeSuccess(tk, vec) ==
    [tk EXCEPT !.embedding = vec,
               !.embed = "ok",
               !.pc = IF tk.kind = "ai_test" THEN "save_file" ELSE "returned"]

EncodeFailureRetry(tk) ==
    IF tk.encodes < 2
    THEN SubmitEncode(tk)
    ELSE [tk EXCEPT !.embed = "encode_failed", !.error = "RuntimeError", !.pc = "failed"]

EncodeFailureZeroVector(tk) ==
    [tk EXCEPT !.embed = "encode_failed",
               !.embedding = ZeroVector,
               !.pc = IF tk.kind = "ai_test" THEN "save_file" ELSE "returned"]

\* embed_text lines 108-110: encode raised; RuntimeError goes to the caller
\* (ai_test_endpoint turns it into HTTP 500, lines 206-210).
EncodeFailure(tk) ==
    [tk EXCEPT !.embed = "encode_failed",
               !.error = "RuntimeError",
               !.pc = "failed"]

\* _load_model line 55: the construction raised; the exception leaves
\* _load_model and embed_text (the await of line 85 is outside the try).
LoadFailure(tk) ==
    [tk EXCEPT !.embed = "load_failed",
               !.error = "LoadError",
               !.pc = "failed"]

CancelledSwallowed(tk) == [tk EXCEPT !.cancelAt = tk.pc]

\* asyncio cancellation delivered at the await the coroutine is suspended on:
\* CancelledError is not an Exception, no handler of embed_text or of
\* ai_test_endpoint catches it.
Cancelled(tk) ==
    [tk EXCEPT !.cancelAt = tk.pc, !.pc = "cancelled", !.error = "CancelledError"]

\* --------------------------------------------------------- DatabaseService
InsertParamFitted(embedding) == [embedding EXCEPT !.dim = EMBEDDING_DIM]

\* The embedding parameter create_ai_log binds to $4 (line 72).
InsertParam(embedding) == embedding

\* Column ai_test_logs.embedding is vector(EMBEDDING_DIM): the INSERT raises
\* unless the bound vector has exactly that many dimensions.
ColumnAccepts(vec) == vec.dim = EMBEDDING_DIM

NewRow(id, user_context, vec, by) ==
    [id |-> id, user_context |-> user_context, embedding |-> vec, by |-> by]

\* --------------------------------------------------------------- /ai-test
\* POST /ai-test with a body the validator rejects (HTTP 422, the endpoint
\* body never runs).
AiTestReject(t) ==
    /\ tasks[t].pc = "idle"
    /\ \E raw \in RawTexts :
        /\ IsBlank(raw)
        /\ tasks' = [tasks EXCEPT ![t] =
                [@ EXCEPT !.kind = "ai_test", !.pc = "rejected", !.error = "ValueError"]]
    /\ UNCHANGED <<model, rows, nextId, logCalls>>
    /\ UNCHANGED outsideWorkflow

\* POST /ai-test accepted: user_context is the sanitized value; step 1 awaits
\* openrouter_service.generate_response.
AiTestAccept(t) ==
    /\ tasks[t].pc = "idle"
    /\ \E raw \in RawTexts :
        /\ ~IsBlank(raw)
        /\ tasks' = [tasks EXCEPT ![t] =
                [@ EXCEPT !.kind = "ai_test", !.pc = "generate", !.text = SanitizeInput(raw)]]
    /\ UNCHANGED <<model, rows, nextId, logCalls>>
    /\ UNCHANGED outsideWorkflow

\* Step 1 done; step 2 calls embed_text(request.user_context), which runs to
\* its first await.
GenerateOk(t) ==
    /\ tasks[t].pc = "generate"
    /\ tasks' = [tasks EXCEPT ![t] = EmbedTextEnter(@, @.text, model)]
    /\ UNCHANGED <<model, rows, nextId, logCalls>>
    /\ UNCHANGED outsideWorkflow

GenerateFail(t) ==
    /\ tasks[t].pc = "generate"
    /\ tasks' = [tasks EXCEPT ![t] = [@ EXCEPT !.pc = "failed", !.error = "GenerateError"]]
    /\ UNCHANGED <<model, rows, nextId, logCalls>>
    /\ UNCHANGED outsideWorkflow

\* embed_text called by another client of the service (health_check, a
\* retrieval path) with any text.
DirectCall(t) ==
    /\ tasks[t].pc = "idle"
    /\ \E raw \in RawTexts :
        tasks' = [tasks EXCEPT ![t] =
                EmbedTextEnter([@ EXCEPT !.kind = "direct"], raw, model)]
    /\ UNCHANGED <<model, rows, nextId, logCalls>>
    /\ UNCHANGED outsideWorkflow

\* _load_model lines 55-65: the construction finished, self.model is assigned
\* the new object, and embed_text goes on to submit the encode.
LoadOk(t) ==
    /\ tasks[t].pc = "loading"
    /\ model' = t
    /\ tasks' = [tasks EXCEPT ![t] = SubmitEncode(@)]
    /\ UNCHANGED <<rows, nextId, logCalls>>
    /\ UNCHANGED outsideWorkflow

LoadFail(t) ==
    /\ tasks[t].pc = "loading"
    /\ tasks' = [tasks EXCEPT ![t] = LoadFailure(@)]
    /\ UNCHANGED <<model, rows, nextId, logCalls>>
    /\ UNCHANGED outsideWorkflow

EncodeOk(t) ==
    /\ tasks[t].pc = "encoding"
    /\ tasks' = [tasks EXCEPT ![t] = EncodeSuccess(@, ModelEncode(EncodeJobInput(t)))]
    /\ UNCHANGED <<model, rows, nextId, logCalls>>
    /\ UNCHANGED outsideWorkflow

EncodeFail(t) ==
    /\ tasks[t].pc = "encoding"
    /\ tasks' = [tasks EXCEPT ![t] = EncodeFailure(@)]
    /\ UNCHANGED <<model, rows, nextId, logCalls>>
    /\ UNCHANGED outsideWorkflow

\* Step 3: storage_service.save_text_file.
SaveFileOk(t) ==
    /\ tasks[t].pc = "save_file"
    /\ tasks' = [tasks EXCEPT ![t] = [@ EXCEPT !.pc = "log"]]
    /\ logCalls' = logCalls \cup {t}
    /\ UNCHANGED <<model, rows, nextId>>
    /\ UNCHANGED outsideWorkflow

SaveFileFail(t) ==
    /\ tasks[t].pc = "save_file"
    /\ tasks' = [tasks EXCEPT ![t] = [@ EXCEPT !.pc = "failed", !.error = "StorageError"]]
    /\ UNCHANGED <<model, rows, nextId, logCalls>>
    /\ UNCHANGED outsideWorkflow

\* Step 4: create_ai_log inserted the row and returned it.
CreateAiLogOk(t) ==
    /\ tasks[t].pc = "log"
    /\ ColumnAccepts(InsertParam(tasks[t].embedding))
    /\ rows' = Append(rows, NewRow(nextId, tasks[t].text, InsertParam(tasks[t].embedding), t))
    /\ nextId' = nextId + 1
    /\ tasks' = [tasks EXCEPT ![t] = [@ EXCEPT !.pc = "cache"]]
    /\ UNCHANGED <<model, logCalls>>
    /\ UNCHANGED outsideWorkflow

\* Step 4: the INSERT raised (lines 82-84); RuntimeError, HTTP 500.
CreateAiLogFail(t) ==
    /\ tasks[t].pc = "log"
    /\ tasks' = [tasks EXCEPT ![t] = [@ EXCEPT !.pc = "failed", !.error = "RuntimeError"]]
    /\ UNCHANGED <<model, rows, nextId, logCalls>>
    /\ UNCHANGED outsideWorkflow

\* Step 5: cache_service.cache_ai_response, then the response is returned.
CacheDone(t) ==
    /\ tasks[t].pc = "cache"
    /\ \E ok \in BOOLEAN :
        tasks' = [tasks EXCEPT ![t] =
            IF ok THEN [@ EXCEPT !.pc = "done"]
            ELSE [@ EXCEPT !.pc = "failed", !.error = "CacheError"]]
    /\ UNCHANGED <<model, rows, nextId, logCalls>>
    /\ UNCHANGED outsideWorkflow

\* The caller abandons the task while it is suspended.  A job already handed
\* to the executor runs on with nobody awaiting it: its result is dropped, and
\* a construction that finishes this way is never assigned to self.model.
Cancel(t) ==
    /\ tasks[t].pc \in AwaitPoints
    /\ tasks' = [tasks EXCEPT ![t] = Cancelled(@)]
    /\ UNCHANGED <<model, rows, nextId, logCalls>>
    /\ UNCHANGED outsideWorkflow

Next ==
    \E t \in Tasks :
        \/ AiTestReject(t)
        \/ AiTestAccept(t)
        \/ GenerateOk(t)
        \/ GenerateFail(t)
        \/ DirectCall(t)
        \/ LoadOk(t)
        \/ LoadFail(t)
        \/ EncodeOk(t)
        \/ EncodeFail(t)
        \/ SaveFileOk(t)
        \/ SaveFileFail(t)
        \/ CreateAiLogOk(t)
        \/ CreateAiLogFail(t)
        \/ CacheDone(t)
        \/ Cancel(t)

Spec == Init /\ [][Next]_vars

\* The default executor runs every job handed to it: a construction of the
\* model that was submitted returns or raises.
LoadFairness == \A t \in Tasks : WF_vars(LoadOk(t) \/ LoadFail(t))

SpecLoadFair == Spec /\ LoadFairness

\* ------------------------------------------------- similarity (pgvector)
Dot(a, b) == a[1] * b[1] + a[2] * b[2]

ISqrt(n) == CHOOSE r \in 0..n : r * r <= n /\ (r + 1) * (r + 1) > n

Norm(v) == ISqrt(Dot(v, v))

\* a <=> b, the cosine distance 1 - a.b / (|a| |b|), in units of 1/SIM_SCALE.
CosineDistance(a, b) ==
    SIM_SCALE - ((SIM_SCALE * Dot(a.xy, b.xy)) \div (Norm(a.xy) * Norm(b.xy)))

\* The select-list expression `1 - (embedding <=> $1::vector) as similarity`.
SimilarityOf(row, q) == SIM_SCALE - CosineDistance(row.embedding, q)

MeetsThresholdRankOnly(row, q, minSimilarity) == TRUE

\* WHERE 1 - (embedding <=> $1::vector) >= $2
MeetsThreshold(row, q, minSimilarity) ==
    SIM_SCALE - CosineDistance(row.embedding, q) >= minSimilarity

\* ORDER BY embedding <=> $1::vector: every order of the candidates in which
\* the distance never decreases.  The statement names no second sort key, so
\* the database is free in the order of rows at equal distance.
RECURSIVE OrderByDistance(_, _)
OrderByDistance(cands, q) ==
    IF cands = {} THEN {<<>>}
    ELSE UNION { { <<r>> \o rest : rest \in OrderByDistance(cands \ {r}, q) } :
                 r \in { x \in cands :
                           \A y \in cands :
                               CosineDistance(x.embedding, q)
                                   <= CosineDistance(y.embedding, q) } }

\* LIMIT $3
LimitTo(seq, limit) == SubSeq(seq, 1, IF Len(seq) < limit THEN Len(seq) ELSE limit)

RowSet(table) == { table[i] : i \in 1..Len(table) }

\* The lists the query of find_similar_logs (lines 134-142) can return, each
\* row reduced to its id and its similarity column.
FindSimilarResults(table, q, limit, minSimilarity) ==
    { [i \in 1..Len(LimitTo(ord, limit)) |->
          [id |-> ord[i].id, similarity |-> SimilarityOf(ord[i], q)]] :
      ord \in OrderByDistance(
                  { r \in RowSet(table) : MeetsThreshold(r, q, minSimilarity) }, q) }

\* ------------------------------------------------- clients of the store
\* Non-zero vectors a client passes to the store: normalized ones and one of
\* norm 2 * UNIT (the tests insert vectors that are not normalized).
StoreDirections == { <<5, 0>>, <<3, 4>>, <<6, 8>>, <<-5, 0>> }

StoreDims == { EMBEDDING_DIM, EMBEDDING_DIM - 1 }

StoreVectors == { [dim |-> d, xy |-> v] : d \in StoreDims, v \in StoreDirections }

Limits == { 1, DEFAULT_LIMIT }

MinSimilarities == { 0, 30, 50 }

\* min_similarity: float = 0.5, in units of 1/SIM_SCALE.
DEFAULT_MIN_SIMILARITY == SIM_SCALE \div 2

ClientText == <<"a">>

\* create_ai_log returned the inserted row.
StoreCreateAiLogOk ==
    /\ Len(rows) < MaxRows
    /\ \E e \in StoreVectors :
        /\ ColumnAccepts(InsertParam(e))
        /\ rows' = Append(rows, NewRow(nextId, ClientText, InsertParam(e), 0))
        /\ nextId' = nextId + 1
        /\ result' = [NoResult EXCEPT !.op = "create_ai_log", !.status = "ok",
                                      !.embedding = e, !.before = Len(rows)]
    /\ UNCHANGED <<outsideStore>>

\* create_ai_log lines 82-84: the INSERT raised, no row was written and the
\* caller gets RuntimeError.
StoreCreateAiLogError ==
    /\ \E e \in StoreVectors :
        /\ ~ColumnAccepts(InsertParam(e))
        /\ result' = [NoResult EXCEPT !.op = "create_ai_log", !.status = "error",
                                      !.embedding = e, !.before = Len(rows)]
    /\ UNCHANGED <<rows, nextId, outsideStore>>

\* find_similar_logs returned a list.  A query vector of another dimension
\* than the column's makes `<=>` raise on the first row it is compared with.
StoreFindSimilarOk ==
    /\ \E q \in StoreVectors, limit \in Limits, minSimilarity \in MinSimilarities :
        /\ q.dim = EMBEDDING_DIM \/ rows = <<>>
        /\ \E found \in FindSimilarResults(rows, q, limit, minSimilarity) :
            result' = [NoResult EXCEPT !.op = "find_similar_logs", !.status = "ok",
                                       !.embedding = q, !.limit = limit,
                                       !.min = minSimilarity, !.list = found,
                                       !.before = Len(rows)]
    /\ UNCHANGED <<rows, nextId, outsideStore>>

\* find_similar_logs(embedding): the caller names neither limit nor
\* min_similarity, the signature's defaults (lines 118-119) are bound to $3
\* and $2.
StoreFindSimilarDefaults ==
    /\ \E q \in StoreVectors :
        /\ q.dim = EMBEDDING_DIM \/ rows = <<>>
        /\ \E found \in FindSimilarResults(rows, q, DEFAULT_LIMIT, DEFAULT_MIN_SIMILARITY) :
            result' = [NoResult EXCEPT !.op = "find_similar_logs", !.status = "ok",
                                       !.embedding = q, !.limit = DEFAULT_LIMIT,
                                       !.min = DEFAULT_MIN_SIMILARITY, !.list = found,
                                       !.before = Len(rows), !.defaults = TRUE]
    /\ UNCHANGED <<rows, nextId, outsideStore>>

\* find_similar_logs lines 153-155: the query raised.
StoreFindSimilarError ==
    /\ rows # <<>>
    /\ \E q \in StoreVectors, limit \in Limits, minSimilarity \in MinSimilarities :
        /\ q.dim # EMBEDDING_DIM
        /\ result' = [NoResult EXCEPT !.op = "find_similar_logs", !.status = "error",
                                       !.embedding = q, !.limit = limit,
                                       !.min = minSimilarity, !.before = Len(rows)]
    /\ UNCHANGED <<rows, nextId, outsideStore>>

NextStore ==
    \/ StoreCreateAiLogOk
    \/ StoreCreateAiLogError
    \/ StoreFindSimilarOk
    \/ StoreFindSimilarDefaults
    \/ StoreFindSimilarError

SpecStore == Init /\ [][NextStore]_vars

\* --------------------------------------- store_in_database (book ingestion)
Docs == 1..MaxDocs

\* store_in_database lines 294-313: connected, table and index exist; the loop
\* over zip(chunks, embeddings) starts.  Each call ingests one new document.
IngestStart ==
    /\ ingest.pc \in {"idle", "done", "failed"}
    /\ ingest.doc < MaxDocs
    /\ \E n \in 1..MaxChunks :
        ingest' = [pc |-> "inserting", doc |-> ingest.doc + 1, n |-> n, i |-> 0,
                   startLen |-> Len(bookChunks)]
    /\ UNCHANGED <<bookChunks, search, outsideIngest>>

\* Lines 317-323: one conn.execute(INSERT ...) of the loop.  The connection
\* runs no transaction block, so the row is committed when the statement
\* returns.  After the last pair the function returns success (lines 325-329).
IngestInsertOk ==
    /\ ingest.pc = "inserting"
    /\ ingest.i < ingest.n
    /\ bookChunks' = Append(bookChunks,
            [id |-> Len(bookChunks) + 1, doc |-> ingest.doc, ordinal |-> ingest.i + 1])
    /\ ingest' = [ingest EXCEPT !.i = ingest.i + 1,
                                !.pc = IF ingest.i + 1 = ingest.n THEN "done" ELSE "inserting"]
    /\ UNCHANGED <<search, outsideIngest>>

\* Lines 331-335: a statement raised; the connection is closed and
\* {'success': False} is returned.
IngestInsertFail ==
    /\ ingest.pc = "inserting"
    /\ ingest.i < ingest.n
    /\ ingest' = [ingest EXCEPT !.pc = "failed"]
    /\ UNCHANGED <<bookChunks, search, outsideIngest>>

ChunkKeys(table) == { <<table[i].doc, table[i].ordinal>> : i \in 1..Len(table) }

\* test_similarity_search lines 350-359, run on a connection of its own: the
\* query reads the rows committed so far and returns at most SEARCH_LIMIT of
\* them (which ones depends on the vectors, left open here).
SimilaritySearch ==
    /\ \E ret \in SUBSET ChunkKeys(bookChunks) :
        /\ Cardinality(ret) = IF Len(bookChunks) < SEARCH_LIMIT
                              THEN Len(bookChunks) ELSE SEARCH_LIMIT
        /\ search' = [during   |-> IF ingest.pc = "inserting" THEN ingest.doc ELSE 0,
                      of       |-> IF ingest.pc = "inserting" THEN ingest.n ELSE 0,
                      visible  |-> ChunkKeys(bookChunks),
                      returned |-> ret]
    /\ UNCHANGED <<bookChunks, ingest, outsideIngest>>

NextIngest ==
    \/ IngestStart
    \/ IngestInsertOk
    \/ IngestInsertFail
    \/ SimilaritySearch

SpecIngest == Init /\ [][NextIngest]_vars

\* ------------------------------------- DatabaseService, every operation
ClientTexts == { <<"a">>, <<"b">> }

RowIds == 1..MaxRows

Offsets == { 0, 1 }

\* The vectors the clients of this specification send: two opposite
\* directions, in the table's dimension and one short of it.
OpsVectors == { v \in StoreVectors : v.xy[2] = 0 }

\* What makes the statement of an operation fail before it runs: self.pool is
\* None (initialize was never awaited), the pool is closed, or the database
\* is unreachable.
FailureCause(p, down) ==
    IF p = "none" THEN "pool_none"
    ELSE IF p = "closed" THEN "pool_closed"
    ELSE IF down THEN "db_error"
    ELSE "none"

\* The columns get_ai_logs and get_log_by_id select (lines 100-101, 170-171):
\* the embedding column is not among them.
SelectColumns(row) ==
    [id |-> row.id, user_context |-> row.user_context, embedding |-> NoVector]

\* except-clauses of the operations: what the caller gets when the database
\* call raised.
CreateAiLogOnError(c) == [c EXCEPT !.raised = TRUE]

GetAiLogsOnError(c) == [c EXCEPT !.raised = TRUE]

FindSimilarLogsOnErrorEmpty(c) == c

FindSimilarLogsOnError(c) == [c EXCEPT !.raised = TRUE]

GetLogByIdOnError(c) == [c EXCEPT !.raised = TRUE]

\* get_log_statistics lines 215-217: `return {}`.
GetLogStatisticsOnError(c) == [c EXCEPT !.row = NoRow, !.count = 0]

\* delete_old_logs lines 241-243: `return 0`.
DeleteOldLogsOnError(c) == [c EXCEPT !.count = 0]

RECURSIVE Reverse(_)
Reverse(seq) == IF seq = <<>> THEN <<>> ELSE Append(Reverse(Tail(seq)), Head(seq))

\* ORDER BY created_at DESC LIMIT $1 OFFSET $2 of get_ai_logs.
NewestFirst(table, limit, offset) ==
    LET all == Reverse(table)
        from == IF offset < Len(all) THEN offset + 1 ELSE Len(all) + 1
        to == IF offset + limit < Len(all) THEN offset + limit ELSE Len(all)
    IN  [i \in 1..(to - from + 1) |-> SelectColumns(all[from + i - 1])]

\* initialize(): asyncpg.create_pool succeeded.
OpsInitialize ==
    /\ pool = "none"
    /\ pool' = "open"
    /\ UNCHANGED <<call, rows, nextId, outsideOps>>

\* close(): the pool is closed; the attribute keeps the closed pool.
OpsClose ==
    /\ pool = "open"
    /\ pool' = "closed"
    /\ UNCHANGED <<call, rows, nextId, outsideOps>>

OpsCreateAiLog ==
    /\ \E e \in OpsVectors, text \in ClientTexts, down \in BOOLEAN :
        LET pre == FailureCause(pool, down)
            cause == IF pre # "none" THEN pre
                     ELSE IF ~ColumnAccepts(InsertParam(e)) THEN "statement"
                     ELSE "none"
            c == [NoCall EXCEPT !.op = "create_ai_log", !.cause = cause]
        IN  IF cause # "none"
            THEN /\ call' = CreateAiLogOnError(c)
                 /\ UNCHANGED <<rows, nextId>>
            ELSE /\ nextId <= MaxRows
                 /\ rows' = Append(rows, NewRow(nextId, text, InsertParam(e), 0))
                 /\ nextId' = nextId + 1
                 /\ call' = [c EXCEPT !.id = nextId,
                                     !.row = [id |-> nextId, user_context |-> text,
                                              embedding |-> NoVector]]
    /\ UNCHANGED <<pool, outsideOps>>

OpsGetAiLogs ==
    /\ \E limit \in Limits, offset \in Offsets, down \in BOOLEAN :
        LET cause == FailureCause(pool, down)
            c == [NoCall EXCEPT !.op = "get_ai_logs", !.cause = cause]
        IN  call' = IF cause # "none" THEN GetAiLogsOnError(c)
                    ELSE [c EXCEPT !.list = NewestFirst(rows, limit, offset)]
    /\ UNCHANGED <<pool, rows, nextId, outsideOps>>

OpsFindSimilarLogs ==
    /\ \E q \in OpsVectors, limit \in Limits, minSimilarity \in MinSimilarities,
          down \in BOOLEAN :
        LET pre == FailureCause(pool, down)
            cause == IF pre # "none" THEN pre
                     ELSE IF q.dim # EMBEDDING_DIM /\ rows # <<>> THEN "statement"
                     ELSE "none"
            c == [NoCall EXCEPT !.op = "find_similar_logs", !.cause = cause,
                                !.embedding = q, !.limit = limit, !.min = minSimilarity]
        IN  IF cause # "none"
            THEN call' = FindSimilarLogsOnError(c)
            ELSE \E found \in FindSimilarResults(rows, q, limit, minSimilarity) :
                    call' = [c EXCEPT !.list = found]
    /\ UNCHANGED <<pool, rows, nextId, outsideOps>>

OpsGetLogById ==
    /\ \E id \in RowIds, down \in BOOLEAN :
        LET cause == FailureCause(pool, down)
            c == [NoCall EXCEPT !.op = "get_log_by_id", !.cause = cause, !.id = id]
            hit == { r \in RowSet(rows) : r.id = id }
        IN  call' = IF cause # "none" THEN GetLogByIdOnError(c)
                    ELSE IF hit = {} THEN c
                    ELSE [c EXCEPT !.row = SelectColumns(CHOOSE r \in hit : TRUE)]
    /\ UNCHANGED <<pool, rows, nextId, outsideOps>>

OpsGetLogStatistics ==
    /\ \E down \in BOOLEAN :
        LET cause == FailureCause(pool, down)
            c == [NoCall EXCEPT !.op = "get_log_statistics", !.cause = cause]
        IN  call' = IF cause # "none" THEN GetLogStatisticsOnError(c)
                    ELSE [c EXCEPT !.count = Len(rows)]
    /\ UNCHANGED <<pool, rows, nextId, outsideOps>>

\* delete_old_logs: the rows older than the cut-off are the first k in
\* insertion order. The server may reject `INTERVAL $1` (a parameter where the
\* grammar wants a literal); both outcomes are kept.
OpsDeleteOldLogs ==
    /\ \E k \in 0..Len(rows), down \in BOOLEAN, rejected \in BOOLEAN :
        LET pre == FailureCause(pool, down)
            cause == IF pre # "none" THEN pre
                     ELSE IF rejected THEN "statement"
                     ELSE "none"
            c == [NoCall EXCEPT !.op = "delete_old_logs", !.cause = cause]
        IN  IF cause # "none"
            THEN /\ call' = DeleteOldLogsOnError(c)
                 /\ rows' = rows
            ELSE /\ call' = [c EXCEPT !.count = k]
                 /\ rows' = SubSeq(rows, k + 1, Len(rows))
    /\ UNCHANGED <<pool, nextId, outsideOps>>

NextOps ==
    \/ OpsInitialize
    \/ OpsClose
    \/ OpsCreateAiLog
    \/ OpsGetAiLogs
    \/ OpsFindSimilarLogs
    \/ OpsGetLogById
    \/ OpsGetLogStatistics
    \/ OpsDeleteOldLogs

SpecOps == Init /\ [][NextOps]_vars

\* ------------------------------------------------------------- chunk_book
\* A line is a run-length encoded string: a sequence of runs [c, n], n > 0,
\* neighbouring runs of different characters.  A text is the sequence of
\* the lines between its "\n" characters; the empty string is <<>> as a
\* chunk text and one empty line as the result of text.split('\n').
EmptyLine == <<>>

TitleLine == << [c |-> "A", n |-> 5] >>

BodyLine == << [c |-> " ", n |-> 1], [c |-> "a", n |-> 30] >>

LongLine == << [c |-> "a", n |-> 10 * DEFAULT_CHUNK_SIZE] >>

LineShapes == { EmptyLine, TitleLine, BodyLine, LongLine }

RECURSIVE DocsOfLen(_)
DocsOfLen(n) ==
    IF n = 0 THEN { <<>> }
    ELSE { Append(d, l) : d \in DocsOfLen(n - 1), l \in LineShapes }

\* text.split('\n') of the documents the caller passes: 1..MaxLines lines.
BookTexts == UNION { DocsOfLen(n) : n \in 1..MaxLines }

ChunkSizes == { 160, DEFAULT_CHUNK_SIZE }

Overlaps == { 0, DEFAULT_OVERLAP }

\* Documents of the callers that call chunk_book more than once.
CallDocs == { d \in BookTexts : Len(d) <= 2 }

RECURSIVE LineLen(_)
LineLen(line) == IF line = <<>> THEN 0 ELSE Head(line).n + LineLen(Tail(line))

RECURSIVE LinesSize(_)
LinesSize(lines) ==
    IF lines = <<>> THEN 0 ELSE LineLen(Head(lines)) + LinesSize(Tail(lines))

RECURSIVE LStripLine(_)
LStripLine(line) ==
    IF line # <<>> /\ Head(line).c = " " THEN LStripLine(Tail(line)) ELSE line

RECURSIVE RStripLine(_)
RStripLine(line) ==
    IF line # <<>> /\ line[Len(line)].c = " "
    THEN RStripLine(SubSeq(line, 1, Len(line) - 1))
    ELSE line

StripLine(line) == RStripLine(LStripLine(line))

\* str.isupper(): at least one cased character and no lowercase one.
IsUpperLine(line) ==
    /\ \E i \in 1..Len(line) : line[i].c = "A"
    /\ \A i \in 1..Len(line) : line[i].c # "a"

IsTitle(line) ==
    /\ StripLine(line) # <<>>
    /\ IsUpperLine(StripLine(line))
    /\ LineLen(StripLine(line)) < TITLE_MAX_LEN

RECURSIVE LStripText(_)
LStripText(lines) ==
    IF lines = <<>> THEN <<>>
    ELSE IF StripLine(Head(lines)) = <<>> THEN LStripText(Tail(lines))
    ELSE <<LStripLine(Head(lines))>> \o Tail(lines)

RECURSIVE RStripText(_)
RStripText(lines) ==
    IF lines = <<>> THEN <<>>
    ELSE IF StripLine(lines[Len(lines)]) = <<>>
         THEN RStripText(SubSeq(lines, 1, Len(lines) - 1))
    ELSE SubSeq(lines, 1, Len(lines) - 1) \o <<RStripLine(lines[Len(lines)])>>

\* '\n'.join(current_chunk).strip()
JoinStrip(lines) == RStripText(LStripText(lines))

\* len() of a text.
TextLen(text) == IF text = <<>> THEN 0 ELSE LinesSize(text) + Len(text) - 1

\* The guard `if chunk_text:` in front of every chunks.append.
KeepChunkAlways(chunk_text) == TRUE

KeepChunk(chunk_text) == chunk_text # <<>>

\* One element of `chunks`.  first, last and carried are not in the Python
\* dict: they record which source lines current_chunk held and how many of
\* its leading lines were carried over from the chunk before; fresh is the
\* text of the lines that were not carried over.
MakeChunk(current_chunk, type, story_number, first, last, carried) ==
    [text |-> JoinStrip(current_chunk),
     type |-> type,
     story_number |-> story_number,
     char_count |-> TextLen(JoinStrip(current_chunk)),
     first |-> first, last |-> last, carried |-> carried,
     fresh |-> JoinStrip(SubSeq(current_chunk, carried + 1, Len(current_chunk)))]

\* chunks.append(...) behind its guard.
AppendChunk(chunks, chunk) ==
    IF KeepChunk(chunk.text) THEN Append(chunks, chunk) ELSE chunks

\* `chunks = []` at the head of every call.
InitialChunksKept(previous) == previous

InitialChunks(previous) == <<>>

RECURSIVE SumCharCount(_)
SumCharCount(chunks) ==
    IF chunks = <<>> THEN 0
    ELSE Head(chunks).char_count + SumCharCount(Tail(chunks))

\* The dict chunk_book returns.
ReturnValue(chunks, stories_found) ==
    [success |-> TRUE,
     chunks |-> chunks,
     chunk_count |-> Len(chunks),
     avg_chunk_size |-> IF chunks # <<>> THEN SumCharCount(chunks) \div Len(chunks) ELSE 0,
     stories_found |-> stories_found]

InputOf(ch) == [lines |-> ch.lines, chunk_size |-> ch.chunk_size, overlap |-> ch.overlap]

\* chunk_book(text, chunk_size, overlap) is called: lines 167-173.
ChunkBookEnter(docs, maxCalls) ==
    /\ chunker.pc \in {"idle", "returned"}
    /\ calls < maxCalls
    /\ \E doc \in docs, chunk_size \in ChunkSizes, overlap \in Overlaps :
        chunker' = [IdleChunker EXCEPT
                        !.pc = "loop",
                        !.lines = doc, !.chunk_size = chunk_size, !.overlap = overlap,
                        !.i = 1,
                        !.chunks = InitialChunks(chunker.chunks)]
    /\ calls' = calls + 1
    /\ UNCHANGED <<firstCall, outsideChunk>>

ChunkBookOnce == ChunkBookEnter(BookTexts, 1)

ChunkBookCall == ChunkBookEnter(CallDocs, MaxCalls)

\* One pass of the for loop over a story title: lines 177-194.
ChunkBookTitleLine ==
    /\ chunker.pc = "loop"
    /\ chunker.i <= Len(chunker.lines)
    /\ IsTitle(chunker.lines[chunker.i])
    /\ LET line == chunker.lines[chunker.i]
           save == chunker.current_chunk # <<>> /\ chunker.current_size > MIN_STORY_SIZE
           chunk == MakeChunk(chunker.current_chunk, "story", chunker.stories_found,
                              chunker.first, chunker.i - 1, chunker.carried)
       IN  chunker' = [chunker EXCEPT
                !.chunks = IF save THEN AppendChunk(@, chunk) ELSE @,
                !.stories_found = IF save /\ KeepChunk(chunk.text) THEN @ + 1 ELSE @,
                !.current_chunk = <<line>>,
                !.current_size = LineLen(line),
                !.first = chunker.i, !.carried = 0,
                !.i = @ + 1]
    /\ UNCHANGED <<calls, firstCall, outsideChunk>>

\* One pass of the for loop over any other line: lines 195-218.
ChunkBookBodyLine ==
    /\ chunker.pc = "loop"
    /\ chunker.i <= Len(chunker.lines)
    /\ ~IsTitle(chunker.lines[chunker.i])
    /\ LET line == chunker.lines[chunker.i]
           current_chunk == Append(chunker.current_chunk, line)
           current_size == chunker.current_size + LineLen(line)
           first == IF chunker.current_chunk = <<>> THEN chunker.i ELSE chunker.first
           chunk == MakeChunk(current_chunk, "continuation", 0,
                              first, chunker.i, chunker.carried)
           kept == SubSeq(current_chunk, Len(current_chunk) - OVERLAP_LINES + 1,
                          Len(current_chunk))
       IN  IF current_size >= chunker.chunk_size
           THEN IF chunker.overlap > 0 /\ Len(current_chunk) > OVERLAP_LINES
                THEN chunker' = [chunker EXCEPT
                        !.chunks = AppendChunk(@, chunk),
                        !.current_chunk = kept,
                        !.current_size = LinesSize(kept),
                        !.first = chunker.i - OVERLAP_LINES + 1,
                        !.carried = OVERLAP_LINES,
                        !.i = @ + 1]
                ELSE chunker' = [chunker EXCEPT
                        !.chunks = AppendChunk(@, chunk),
                        !.current_chunk = <<>>,
                        !.current_size = 0,
                        !.first = 0, !.carried = 0,
                        !.i = @ + 1]
           ELSE chunker' = [chunker EXCEPT
                        !.current_chunk = current_chunk,
                        !.current_size = current_size,
                        !.first = first,
                        !.i = @ + 1]
    /\ UNCHANGED <<calls, firstCall, outsideChunk>>

\* After the loop: the final chunk and the return, lines 220-241.
ChunkBookReturn ==
    /\ chunker.pc = "loop"
    /\ chunker.i > Len(chunker.lines)
    /\ LET chunk == MakeChunk(chunker.current_chunk, "final", 0,
                              chunker.first, Len(chunker.lines), chunker.carried)
           chunks == IF chunker.current_chunk # <<>>
                     THEN AppendChunk(chunker.chunks, chunk)
                     ELSE chunker.chunks
           value == ReturnValue(chunks, chunker.stories_found)
       IN  /\ chunker' = [chunker EXCEPT !.pc = "returned", !.chunks = chunks,
                                         !.returned = value]
           /\ firstCall' = IF firstCall.input = NoInput
                           THEN [input |-> InputOf(chunker), output |-> value]
                           ELSE firstCall
    /\ UNCHANGED <<calls, outsideChunk>>

NextChunk ==
    \/ ChunkBookOnce
    \/ ChunkBookTitleLine
    \/ ChunkBookBodyLine
    \/ ChunkBookReturn

SpecChunk == Init /\ [][NextChunk]_vars

NextChunkCalls ==
    \/ ChunkBookCall
    \/ ChunkBookTitleLine
    \/ ChunkBookBodyLine
    \/ ChunkBookReturn

SpecChunkCalls == Init /\ [][NextChunkCalls]_vars

\* ---------------------------------------- generate_embeddings vs embed_text
BatchTexts == { <<"a">>, <<"b">>, <<"a", "b">> }

RECURSIVE TextLists(_)
TextLists(n) ==
    IF n = 0 THEN { <<>> }
    ELSE { Append(l, t) : l \in TextLists(n - 1), t \in BatchTexts }

\* The chunk texts handed to generate_embeddings: 1..MaxBatch of them.
Batches == UNION { TextLists(n) : n \in 1..MaxBatch }

\* The norm, in multiples of UNIT, the model leaves on a vector that the
\* caller did not ask to normalize.
RawNorms == { 1, 2 }

Scaled(vec, k) == [vec EXCEPT !.xy = <<k * vec.xy[1], k * vec.xy[2]>>]

\* model.encode(texts, show_progress_bar=False) and .tolist() per element
\* (lines 272-278): the chunk text as it is, normalize_embeddings left at its
\* default.
BatchEncode(texts, k) == [i \in 1..Len(texts) |-> Scaled(ModelEncode(texts[i]), k)]

\* What embed_text(text) returns when load and encode succeed (lines 91-107):
\* the instruction is put in front, the encode normalizes.
EmbedTextResult(text) == ModelEncode(EnhanceText(text))

\* Whether the encode calls of the book script ask for normalization:
\* model.encode(texts, show_progress_bar=False) and model.encode(query) pass
\* no normalize_embeddings.
BookNormalize == FALSE

\* main() has chunked the book and loaded the model.
BatchChunks ==
    /\ batch.pc = "idle"
    /\ \E texts \in Batches :
        batch' = [batch EXCEPT !.pc = "chunks", !.texts = texts,
                               !.single = [i \in 1..Len(texts) |-> NoVector]]
    /\ UNCHANGED outsideBatch

GenerateEmbeddings ==
    /\ batch.pc = "chunks"
    /\ \E k \in RawNorms :
        batch' = [batch EXCEPT !.pc = "embedded",
                               !.embeddings = BatchEncode(batch.texts, k)]
    /\ UNCHANGED outsideBatch

\* generate_embeddings lines 289-290: {'success': False, ...}.
GenerateEmbeddingsFail ==
    /\ batch.pc = "chunks"
    /\ batch' = [batch EXCEPT !.pc = "failed"]
    /\ UNCHANGED outsideBatch

\* embedding_service.embed_text(texts[i]) on a service that works.
EmbedTextAlone ==
    /\ batch.pc # "idle"
    /\ \E i \in 1..Len(batch.texts) :
        /\ batch.single[i] = NoVector
        /\ batch' = [batch EXCEPT !.single[i] = EmbedTextResult(batch.texts[i])]
    /\ UNCHANGED outsideBatch

\* store_in_database lines 317-323: every embedding of the batch is inserted
\* into book_chunks as generate_embeddings returned it.
StoreInDatabase ==
    /\ batch.pc = "embedded"
    /\ batch' = [batch EXCEPT
            !.pc = "stored",
            !.written = [i \in 1..Len(batch.embeddings) |->
                            [embedding |-> batch.embeddings[i],
                             normalize |-> BookNormalize]]]
    /\ UNCHANGED outsideBatch

\* test_similarity_search lines 345-359: the query is encoded and sent to the
\* store as the $1 of the search.
SimilarityQuery ==
    /\ batch.pc = "stored"
    /\ batch.query = NoQuery
    /\ \E q \in BatchTexts, k \in RawNorms :
        batch' = [batch EXCEPT
            !.query = [embedding |-> Scaled(ModelEncode(q), k),
                       normalize |-> BookNormalize]]
    /\ UNCHANGED outsideBatch

NextBatch ==
    \/ StoreInDatabase
    \/ SimilarityQuery
    \/ BatchChunks
    \/ GenerateEmbeddings
    \/ GenerateEmbeddingsFail
    \/ EmbedTextAlone

SpecBatch == Init /\ [][NextBatch]_vars

\* ------------------------------------------------ the connection pool
\* initialize() lines 20-25: asyncpg.create_pool(..., max_size=DB_POOL_MAX_SIZE).
PoolCreate ==
    /\ dbpool = NoPool
    /\ dbpool' = [size |-> MaxPool, free |-> MaxPool, queue |-> <<>>]
    /\ UNCHANGED <<clients, outsidePool>>

\* `async with self.pool.acquire() as conn:` is entered (lines 62, 133): the
\* coroutine queues for a connection.
PoolAcquire(c) ==
    /\ dbpool.size > 0
    /\ clients[c].pc = "idle"
    /\ \E op \in PoolOps :
        clients' = [clients EXCEPT ![c] = [pc |-> "waiting", op |-> op, last |-> "none"]]
    /\ dbpool' = [dbpool EXCEPT !.queue = Append(@, c)]
    /\ UNCHANGED outsidePool

\* The pool hands a free connection to the coroutine that has waited longest.
PoolGrant(c) ==
    /\ dbpool.queue # <<>>
    /\ Head(dbpool.queue) = c
    /\ dbpool.free > 0
    /\ dbpool' = [dbpool EXCEPT !.free = @ - 1, !.queue = Tail(@)]
    /\ clients' = [clients EXCEPT ![c].pc = "holding"]
    /\ UNCHANGED outsidePool

\* __aexit__ of the `async with` block: the connection goes back to the pool
\* when the block is left by return and when it is left by an exception.
ReleaseOnReturn(free) == free + 1

ReleaseOnExceptionLeaked(free) == free

ReleaseOnException(free) == free + 1

\* The statement returned: lines 78-80 and 144-151.
StatementOk(c) ==
    /\ clients[c].pc = "holding"
    /\ dbpool' = [dbpool EXCEPT !.free = ReleaseOnReturn(@)]
    /\ clients' = [clients EXCEPT ![c].pc = "idle", ![c].last = "ok"]
    /\ UNCHANGED outsidePool

\* The statement raised (an error of the server or the command timeout): the
\* block is left, then lines 82-84 and 153-155 raise RuntimeError.
StatementError(c) ==
    /\ clients[c].pc = "holding"
    /\ dbpool' = [dbpool EXCEPT !.free = ReleaseOnException(@)]
    /\ clients' = [clients EXCEPT ![c].pc = "idle", ![c].last = "error"]
    /\ UNCHANGED outsidePool

NextPool ==
    \/ PoolCreate
    \/ \E c \in PoolClients : PoolAcquire(c)
    \/ \E c \in PoolClients : PoolGrant(c)
    \/ \E c \in PoolClients : StatementOk(c)
    \/ \E c \in PoolClients : StatementError(c)

SpecPool == Init /\ [][NextPool]_vars

\* The event loop runs every coroutine that is ready, and every statement
\* ends: by its result, by an error or by the command timeout.
PoolFairness ==
    \A c \in PoolClients :
        /\ WF_vars(PoolGrant(c))
        /\ WF_vars(StatementOk(c) \/ StatementError(c))

SpecPoolFair == SpecPool /\ PoolFairness

\* ----------------------------------------------------------------- /health
\* What the body of a service's health_check can do: run through ("ok"),
\* raise somewhere inside its try, or, for google_ai only, find the service
\* not configured before the try.
ProbeOutcomes(service) ==
    IF service = "google_ai" THEN {"ok", "raised", "unconfigured"} ELSE {"ok", "raised"}

\* The 'status' of the dict the service's health_check returns: every
\* health_check catches Exception and returns {"status": "error", ...}.
HealthStatus(outcome) ==
    CASE outcome = "ok" -> "healthy"
      [] outcome = "raised" -> "error"
      [] outcome = "unconfigured" -> "unavailable"

AllHealthyUnlessError(containers) ==
    \A i \in 1..Len(containers) : containers[i] # "error"

\* all(c.get('status') == 'healthy' for c in containers.values())
AllHealthy(containers) ==
    \A i \in 1..Len(containers) : containers[i] = "healthy"

\* GET /health arrives.
HealthRequest ==
    /\ health.pc = "idle"
    /\ health' = [health EXCEPT !.pc = "checking"]
    /\ UNCHANGED outsideHealth

\* The next entry of the `containers` dict literal is evaluated: the await of
\* that service's health_check returns its dict.
HealthProbe ==
    /\ health.pc = "checking"
    /\ Len(health.containers) < Len(HealthServices)
    /\ \E outcome \in ProbeOutcomes(HealthServices[Len(health.containers) + 1]) :
        health' = [health EXCEPT !.containers = Append(@, HealthStatus(outcome))]
    /\ UNCHANGED outsideHealth

\* Lines 57-65: the overall status is computed and returned.
HealthRespond ==
    /\ health.pc = "checking"
    /\ Len(health.containers) = Len(HealthServices)
    /\ health' = [health EXCEPT
            !.pc = "responded",
            !.status = IF AllHealthy(health.containers) THEN "healthy" ELSE "degraded"]
    /\ UNCHANGED outsideHealth

NextHealth ==
    \/ HealthRequest
    \/ HealthProbe
    \/ HealthRespond

SpecHealth == Init /\ [][NextHealth]_vars

\* ------------------------------------------- /ai-test, step 3: the blob
\* Request r's ai_result is the text r: the responses of different requests
\* differ.  A blob name is the clock second in ai_result_<second>.txt.
\* filename = f"ai_result_{int(time.time())}.txt"
BlobName(now, r) == now

\* The clock moves on to the next second.
ClockTick ==
    /\ blob.clock < MaxClock
    /\ blob' = [blob EXCEPT !.clock = @ + 1]
    /\ UNCHANGED outsideBlob

\* ai.py lines 150-151: the request reaches step 3, builds its file name and
\* calls save_text_file, which awaits the put in the executor.
BlobSaveStart(r) ==
    /\ blob.reqs[r].pc = "idle"
    /\ blob' = [blob EXCEPT !.reqs[r] = [pc |-> "saving", name |-> BlobName(blob.clock, r)]]
    /\ UNCHANGED outsideBlob

\* save_text_file lines 86-100: put_object stored the content under
\* object_name, replacing any object of that name; the URL is returned.
BlobPut(r) ==
    /\ blob.reqs[r].pc = "saving"
    /\ blob' = [blob EXCEPT !.objects[blob.reqs[r].name] = r,
                            !.reqs[r].pc = "log"]
    /\ UNCHANGED outsideBlob

\* save_text_file lines 102-104: the put raised, the request fails.
BlobPutFail(r) ==
    /\ blob.reqs[r].pc = "saving"
    /\ blob' = [blob EXCEPT !.reqs[r].pc = "failed"]
    /\ UNCHANGED outsideBlob

\* ai.py lines 161-168: the row is written with file_url and ai_result.
BlobLogRow(r) ==
    /\ blob.reqs[r].pc = "log"
    /\ blob' = [blob EXCEPT
            !.rows = Append(@, [file_url |-> blob.reqs[r].name, ai_result |-> r]),
            !.reqs[r].pc = "done"]
    /\ UNCHANGED outsideBlob

NextBlob ==
    \/ ClockTick
    \/ \E r \in BlobRequests : BlobSaveStart(r)
    \/ \E r \in BlobRequests : BlobPut(r)
    \/ \E r \in BlobRequests : BlobPutFail(r)
    \/ \E r \in BlobRequests : BlobLogRow(r)

SpecBlob == Init /\ [][NextBlob]_vars

\* ------------------------------------------------ cache of AI responses
Cached == { k \in CacheKeys : cache.store[k] # NoEntry }

\* cache_ai_response: the entry is set under the key generated from the two
\* prompts, replacing what the key held; a failed set leaves the store as it
\* was, and the key is returned either way.
CacheAiResponse(system_prompt, user_context, ai_result) ==
    /\ \E cached \in BOOLEAN :
        LET cache_key == CacheKey(system_prompt, user_context) IN
        IF cached
        THEN /\ cache_key \in Cached \/ Cardinality(Cached) < MaxCached
             /\ cache' = [cache EXCEPT !.store[cache_key] =
                    [system_prompt |-> system_prompt,
                     user_context |-> user_context,
                     ai_result |-> ai_result]]
        ELSE cache' = cache
    /\ UNCHANGED outsideCache

\* The entry of a key expires (setex with expires seconds).
CacheExpire(cache_key) ==
    /\ cache_key \in Cached
    /\ cache' = [cache EXCEPT !.store[cache_key] = NoEntry]
    /\ UNCHANGED outsideCache

\* get_cached_ai_response: whatever the generated key holds is returned,
\* None (NoEntry) when it holds nothing or the get failed.
GetCachedAiResponse(system_prompt, user_context) ==
    /\ \E read \in BOOLEAN :
        LET cache_key == CacheKey(system_prompt, user_context) IN
        cache' = [cache EXCEPT !.got =
            [system_prompt |-> system_prompt,
             user_context |-> user_context,
             response |-> IF read THEN cache.store[cache_key] ELSE NoEntry]]
    /\ UNCHANGED outsideCache

NextCache ==
    \/ \E sp, uc \in CachePrompts : CacheAiResponse(sp, uc, "answer to " \o sp \o " / " \o uc)
    \/ \E k \in CacheKeys : CacheExpire(k)
    \/ \E sp, uc \in CachePrompts : GetCachedAiResponse(sp, uc)

SpecCache == Init /\ [][NextCache]_vars

\* ------------------------------------------------- the LangGraph workflow
\* len(response), as far as the validation looks at it.
ResponseLen(response) ==
    CASE response = "" -> 0
      [] response = "short" -> 9
      [] OTHER -> MIN_RESPONSE_LEN

\* generate_response_langgraph lines 256-274: the workflow is invoked on a
\* fresh initial state and enters at prepare_messages.
GraphInvoke ==
    /\ graph.pc \in {"idle", "returned", "raised"}
    /\ graph' = [IdleGraph EXCEPT !.pc = "prepare_messages"]
    /\ UNCHANGED outsideGraph

\* _prepare_messages, then the edge to generate_response.
PrepareMessages ==
    /\ graph.pc = "prepare_messages"
    /\ graph' = [graph EXCEPT !.pc = "generate_response"]
    /\ UNCHANGED outsideGraph

\* _generate_response: one llm.ainvoke; the stripped content is the
\* response, an empty content or an exception leaves "".
GenerateResponse(outcome) ==
    /\ graph.pc = "generate_response"
    /\ Len(graph.attempts) < MaxAttempts
    /\ graph' = [graph EXCEPT
            !.attempts = Append(@, outcome),
            !.response = CASE outcome = "text" -> "text"
                           [] outcome = "short" -> "short"
                           [] OTHER -> "",
            !.error = @ \/ outcome = "raised",
            !.pc = "validate_response"]
    /\ UNCHANGED outsideGraph

\* _validate_response: fails on an empty response and on one under 10
\* characters; retry_count is kept.
ValidateResponse ==
    /\ graph.pc = "validate_response"
    /\ graph' = [graph EXCEPT
            !.validation_passed =
                graph.response # "" /\ ~(ResponseLen(graph.response) < MIN_RESPONSE_LEN),
            !.pc = "should_regenerate"]
    /\ UNCHANGED outsideGraph

\* _should_regenerate without its count of the retry.
ShouldRegenerateUncounted(validation_passed, retry_count) ==
    IF ~validation_passed /\ retry_count < MAX_RETRIES
    THEN [route |-> "regenerate", retry_count |-> retry_count]
    ELSE [route |-> "finalize", retry_count |-> retry_count]

\* _should_regenerate: regenerate after a failed validation while fewer than
\* 2 retries were made, counting the retry in the metadata of the state.
ShouldRegenerate(validation_passed, retry_count) ==
    IF ~validation_passed /\ retry_count < MAX_RETRIES
    THEN [route |-> "regenerate", retry_count |-> retry_count + 1]
    ELSE [route |-> "finalize", retry_count |-> retry_count]

\* The conditional edge after validate_response.
RouteAfterValidate ==
    /\ graph.pc = "should_regenerate"
    /\ LET to == ShouldRegenerate(graph.validation_passed, graph.retry_count) IN
       graph' = [graph EXCEPT
            !.retry_count = to.retry_count,
            !.pc = IF to.route = "regenerate" THEN "generate_response"
                                              ELSE "finalize_response"]
    /\ UNCHANGED outsideGraph

\* _finalize_response, then the edge to END.
FinalizeResponse ==
    /\ graph.pc = "finalize_response"
    /\ graph' = [graph EXCEPT !.pc = "END"]
    /\ UNCHANGED outsideGraph

\* generate_response_langgraph lines 276-286: the final response is
\* returned, an empty one raises.
GraphReturn ==
    /\ graph.pc = "END"
    /\ graph' = [graph EXCEPT !.pc = IF graph.response = "" THEN "raised" ELSE "returned"]
    /\ UNCHANGED outsideGraph

NextGraph ==
    \/ GraphInvoke
    \/ PrepareMessages
    \/ \E outcome \in ModelOutcomes : GenerateResponse(outcome)
    \/ ValidateResponse
    \/ RouteAfterValidate
    \/ FinalizeResponse
    \/ GraphReturn

SpecGraph == Init /\ [][NextGraph]_vars

\* A run that was invoked is carried on by the graph runtime node by node,
\* and every call of the model returns or raises.
GraphFairness ==
    /\ WF_vars(PrepareMessages)
    /\ WF_vars(\E outcome \in ModelOutcomes : GenerateResponse(outcome))
    /\ WF_vars(ValidateResponse)
    /\ WF_vars(RouteAfterValidate)
    /\ WF_vars(FinalizeResponse)
    /\ WF_vars(GraphReturn)

SpecGraphFair == SpecGraph /\ GraphFairness

\* ================================================================= claims
EmbedFailures == {"load_failed", "encode_failed"}

RowsBy(t) == { i \in 1..Len(rows) : rows[i].by = t }

\* C1: when several embed_text calls start while the model is unloaded, only
\* one SentenceTransformer construction is in flight; the other callers wait
\* for it instead of starting their own.
C1_SingleLoadInFlight ==
    Cardinality({ t \in Tasks : tasks[t].pc = "loading" }) <= 1

\* C2: embed_text called with an empty or whitespace-only text ends in an
\* invalid-input error, having started no model load and no model.encode.
C2_BlankInputRejectedBeforeModel ==
    \A t \in Tasks :
        (tasks[t].kind = "direct" /\ IsBlank(tasks[t].text)) =>
            /\ tasks[t].pc = "failed"
            /\ tasks[t].error = "InvalidInput"
            /\ ~tasks[t].load
            /\ tasks[t].encodes = 0

\* C3: an embed_text call whose model load or encode failed ends in an error
\* and hands no vector to its caller; only calls that succeeded hold a vector,
\* and no create_ai_log call or row comes from a failed embedding.
C3_NoVectorFromFailedBackend ==
    /\ \A t \in Tasks :
        /\ tasks[t].embed \in EmbedFailures =>
            /\ tasks[t].pc = "failed"
            /\ tasks[t].error \in {"LoadError", "RuntimeError"}
            /\ tasks[t].embedding = NoVector
            /\ t \notin logCalls
            /\ RowsBy(t) = {}
        /\ tasks[t].embedding # NoVector => tasks[t].embed = "ok"
    /\ \A i \in 1..Len(rows) : rows[i].embedding.xy # ZeroVector.xy

C3_Witness ==
    /\ \E t \in Tasks : tasks[t].kind = "ai_test" /\ tasks[t].embed = "encode_failed"
    /\ \E t \in Tasks : tasks[t].embed = "load_failed"

\* C4: when a store_in_database batch fails at some row, the table holds
\* exactly the rows it held before the batch started.
C4_FailedBatchLeavesNoRows ==
    ingest.pc = "failed" => Len(bookChunks) = ingest.startLen

\* C5: a similarity search that runs while a document is being ingested reads
\* either none or all of that document's chunks.
C5_SearchSeesAllOrNone ==
    search.during # 0 =>
        Cardinality({ c \in search.visible : c[1] = search.during }) \in {0, search.of}

\* C6: find_similar_logs returns at most `limit` rows, each with its true
\* similarity to the query, and none with a similarity below min_similarity.
C6_ThresholdExcludes ==
    (result.op = "find_similar_logs" /\ result.status = "ok") =>
        /\ Len(result.list) <= result.limit
        /\ \A i \in 1..Len(result.list) :
            /\ result.list[i].similarity >= result.min
            /\ \E r \in RowSet(rows) :
                /\ r.id = result.list[i].id
                /\ SimilarityOf(r, result.embedding) = result.list[i].similarity

C6_Witness ==
    /\ result.op = "find_similar_logs"
    /\ result.status = "ok"
    /\ Len(result.list) > 0
    /\ Len(result.list) < result.limit
    /\ Len(result.list) < Len(rows)

\* C7: the list find_similar_logs returns is ordered by similarity
\* descending, and rows of equal similarity come in ascending id order.
C7_RankedTiesByAscendingId ==
    (result.op = "find_similar_logs" /\ result.status = "ok") =>
        \A i, j \in 1..Len(result.list) :
            i < j =>
                \/ result.list[i].similarity > result.list[j].similarity
                \/ /\ result.list[i].similarity = result.list[j].similarity
                   /\ result.list[i].id < result.list[j].id

\* C8: create_ai_log with an embedding whose length is not EMBEDDING_DIM ends
\* in an error and leaves the table as it was; a stored embedding is the one
\* that was passed, never a truncated or padded one.
C8_DimensionMismatchRejected ==
    /\ (result.op = "create_ai_log" /\ result.embedding.dim # EMBEDDING_DIM) =>
            /\ result.status = "error"
            /\ Len(rows) = result.before
    /\ (result.op = "create_ai_log" /\ result.status = "ok") =>
            /\ Len(rows) = result.before + 1
            /\ rows[Len(rows)].embedding = result.embedding

C8_Witness ==
    /\ result.op = "create_ai_log"
    /\ result.status = "error"
    /\ result.embedding.dim # EMBEDDING_DIM
    /\ Len(rows) > 0

\* C9: every row the /ai-test workflow wrote holds the embedding of the
\* user_context stored in that same row, whatever the interleaving of
\* concurrent requests.
C9_RowEmbeddingFromRowText ==
    \A i \in 1..Len(rows) :
        rows[i].embedding = ModelEncode(EnhanceText(rows[i].user_context))

C9_Witness ==
    \E i, j \in 1..Len(rows) :
        /\ rows[i].user_context # rows[j].user_context
        /\ rows[i].embedding # rows[j].embedding

C14_ReadyIsTerminal == [][model # NoModel => model' = model]_vars

\* C11: no Vector Store operation turns a storage failure into an empty or
\* zero result: whenever the underlying database call failed, the operation
\* ended in an error visible to the caller.
C11_StorageFailureIsRaised == call.cause # "none" => call.raised

\* C12: find_similar_logs raises whenever its query failed (also with a pool
\* that was never initialized or is closed), and returns an empty list only
\* when the query ran and no row met the threshold.
C12_EmptyListMeansNoMatch ==
    call.op = "find_similar_logs" =>
        /\ call.raised <=> call.cause # "none"
        /\ (~call.raised /\ call.list = <<>>) =>
                \A r \in RowSet(rows) : ~MeetsThreshold(r, call.embedding, call.min)

C12_Witness ==
    /\ call.op = "find_similar_logs"
    /\ call.cause = "pool_closed"
    /\ call.raised
    /\ rows # <<>>

\* C13: get_log_by_id(i) of a stored row returns that row's text fields and an
\* embedding equal to the one inserted.
C13_RoundTrip ==
    (call.op = "get_log_by_id" /\ ~call.raised) =>
        \A r \in RowSet(rows) :
            r.id = call.id =>
                /\ call.row.id = r.id
                /\ call.row.user_context = r.user_context
                /\ call.row.embedding = r.embedding

\* The chunks put back together: every chunk without the lines carried over
\* from the chunk before it, one after the other with a line break between.
RECURSIVE Reassembled(_)
Reassembled(chunks) ==
    IF chunks = <<>> THEN <<>>
    ELSE Head(chunks).fresh \o Reassembled(Tail(chunks))

\* The document as a text: the empty document is the empty text.
SourceText(lines) == IF lines = <<EmptyLine>> THEN <<>> ELSE lines

\* C15: the chunks of chunk_book, concatenated in order with the carried-over
\* overlap removed, are the source text: nothing lost, duplicated or altered.
C15_ReassemblyIsSource ==
    chunker.pc = "returned" =>
        Reassembled(chunker.returned.chunks) = SourceText(chunker.lines)

\* C16: for a document without a line break chunk_book cuts at chunk_size:
\* no chunk is longer than chunk_size, and a document of 10 * chunk_size
\* characters gives exactly 10 chunks.
C16_HardCutAtTargetSize ==
    (chunker.pc = "returned" /\ Len(chunker.lines) = 1) =>
        /\ \A k \in 1..Len(chunker.returned.chunks) :
                chunker.returned.chunks[k].char_count <= chunker.chunk_size
        /\ LinesSize(chunker.lines) = 10 * chunker.chunk_size =>
                chunker.returned.chunk_count = 10

\* C17: no chunk of chunk_book has an empty text, and the chunks are in the
\* order in which their lines occur in the document.
C17_NoEmptyChunkInOrder ==
    /\ \A k \in 1..Len(chunker.chunks) :
            /\ chunker.chunks[k].text # <<>>
            /\ chunker.chunks[k].char_count > 0
    /\ \A k \in 1..(Len(chunker.chunks) - 1) :
            /\ chunker.chunks[k].first < chunker.chunks[k + 1].first
            /\ chunker.chunks[k].last <= chunker.chunks[k + 1].last

C17_Witness ==
    /\ chunker.pc = "returned"
    /\ chunker.returned.chunk_count >= 2
    /\ \E k \in 1..Len(chunker.chunks) : chunker.chunks[k].carried > 0
    /\ \E i \in 1..Len(chunker.lines) : chunker.lines[i] = EmptyLine

\* C18: a document shorter than chunk_size gives exactly one chunk, and the
\* empty document gives no chunk and no error.
C18_ShortDocOneChunk ==
    chunker.pc = "returned" =>
        /\ chunker.returned.success
        /\ SourceText(chunker.lines) = <<>> => chunker.returned.chunks = <<>>
        /\ (SourceText(chunker.lines) # <<>>
                /\ TextLen(chunker.lines) < chunker.chunk_size) =>
                    chunker.returned.chunk_count = 1

C20_BatchEqualsSingle ==
    batch.pc = "embedded" =>
        \A i \in 1..Len(batch.texts) :
            batch.single[i] # NoVector => batch.embeddings[i] = batch.single[i]

\* C21: every embedding written to the store and every query embedding sent
\* to a similarity search comes from an encode that applied L2 normalization.
C21_NormalizedBeforeStore ==
    /\ \A i \in 1..Len(batch.written) : batch.written[i].normalize
    /\ batch.query # NoQuery => batch.query.normalize

\* C22: find_similar_logs called without limit and without min_similarity
\* returns at most 5 rows and applies no floor: it returns every stored row
\* when there are at most 5, however low their similarity to the query.
C22_DefaultsFiveAndNoFloor ==
    (result.op = "find_similar_logs" /\ result.status = "ok" /\ result.defaults) =>
        /\ Len(result.list) <= 5
        /\ Len(result.list) = IF Len(rows) < 5 THEN Len(rows) ELSE 5

Holding == { c \in PoolClients : clients[c].pc = "holding" }

\* C23: every store operation gives its connection back when it ends, by
\* success or by error (the connections in use and the free ones always add
\* up to the pool's size, which bounds the connections in use), and every
\* operation waiting for a connection eventually gets one.
C23_ReleasedAndNoStarvation ==
    /\ [](dbpool.free + Cardinality(Holding) = dbpool.size)
    /\ \A c \in PoolClients :
            (clients[c].pc = "waiting") ~> (clients[c].pc = "holding")

C23_Witness ==
    /\ dbpool.free = 0
    /\ Len(dbpool.queue) >= 2
    /\ \E c \in PoolClients : clients[c].pc = "holding" /\ clients[c].op = "find_similar_logs"
    /\ \E c \in PoolClients : clients[c].pc = "waiting" /\ clients[c].op = "create_ai_log"

\* C24: one embed_text call invokes model.encode at most once; when the
\* encode fails the call ends in an error for the caller, with no second
\* encode.
C24_EncodeAtMostOnce ==
    \A t \in Tasks :
        /\ tasks[t].encodes <= 1
        /\ tasks[t].embed = "encode_failed" =>
                /\ tasks[t].encodes = 1
                /\ tasks[t].pc = "failed"
                /\ tasks[t].error = "RuntimeError"

C24_Witness ==
    \E t, u \in Tasks :
        /\ tasks[t].embed = "encode_failed"
        /\ tasks[u].kind = "ai_test"
        /\ tasks[u].embed = "encode_failed"

\* C25: a search with the embedding of a stored record r and limit 1 returns
\* r itself, with similarity 1, whatever else is stored.
C25_SelfMatchFirst ==
    (result.op = "find_similar_logs" /\ result.status = "ok" /\ result.limit = 1) =>
        \A r \in RowSet(rows) :
            r.embedding = result.embedding =>
                /\ Len(result.list) = 1
                /\ result.list[1].id = r.id
                /\ result.list[1].similarity = SIM_SCALE

\* C26: GET /health answers 'healthy' exactly when every service's
\* health_check returned status 'healthy' and 'degraded' otherwise ('error'
\* and 'unavailable' count as not healthy); a failing service never keeps the
\* endpoint from answering.
C26_HealthyIffAllHealthy ==
    /\ health.pc = "responded" =>
        /\ health.status \in {"healthy", "degraded"}
        /\ health.status = "healthy" <=>
                \A i \in 1..Len(health.containers) : health.containers[i] = "healthy"
    /\ \A i \in 1..Len(health.containers) :
            health.containers[i] \in {"healthy", "error", "unavailable"}

C26_Witness ==
    /\ health.pc = "responded"
    /\ health.status = "degraded"
    /\ \A i \in 1..Len(health.containers) : health.containers[i] # "error"

\* C27: the file_url of every row the /ai-test workflow stored names a blob
\* whose content is that row's own ai_result; no two requests share a blob
\* name.
C27_RowNamesOwnBlob ==
    /\ \A i \in 1..Len(blob.rows) :
            blob.objects[blob.rows[i].file_url] = blob.rows[i].ai_result
    /\ \A r, u \in BlobRequests :
            (r # u /\ blob.reqs[r].name # 0) => blob.reqs[r].name # blob.reqs[u].name

\* C28: get_cached_ai_response(system_prompt, user_context) returns only a
\* response that was cached for exactly that pair, and two different pairs
\* never have the same cache key.
C28_OnlyOwnPair ==
    /\ cache.got.response # NoEntry =>
            /\ cache.got.response.system_prompt = cache.got.system_prompt
            /\ cache.got.response.user_context = cache.got.user_context
    /\ \A k \in Cached :
            k = CacheKey(cache.got.system_prompt, cache.got.user_context) =>
                /\ cache.store[k].system_prompt = cache.got.system_prompt
                /\ cache.store[k].user_context = cache.got.user_context

\* C29: one run of the LangGraph workflow calls the model at most 3 times,
\* the first attempt and at most 2 regenerations, each regeneration after a
\* failed attempt, and every run that was invoked reaches finalize_response
\* and ends, also when every attempt gave an empty or too short response.
C29_AtMostThreeCallsThenEnd ==
    /\ [](/\ Len(graph.attempts) <= 3
          /\ Len(graph.attempts) <= graph.retry_count + 1
          /\ \A i \in 1..(Len(graph.attempts) - 1) : graph.attempts[i] # "text")
    /\ (graph.pc = "prepare_messages") ~> (graph.pc = "finalize_response")
    /\ (graph.pc = "finalize_response") ~> (graph.pc = "END")

C29_Witness ==
    /\ graph.pc = "END"
    /\ Len(graph.attempts) = 3
    /\ \A i \in 1..3 : graph.attempts[i] \in {"short", "empty", "raised"}
    /\ ~graph.validation_passed

\* C30: after a failed load of the model the model handle is unset and the
\* call that triggered the load has ended in an error; a call of embed_text
\* that finds the handle unset starts a load of its own; no caller stays in
\* the load forever; and no encode runs while the handle is unset.
C30_FailedLoadLeavesUnloaded ==
    /\ [][\A t \in Tasks :
            (tasks[t].pc = "loading" /\ tasks'[t].pc \notin {"loading", "cancelled"}
                /\ model' # t) =>
                /\ model' = NoModel
                /\ tasks'[t].pc = "failed"
                /\ tasks'[t].embed = "load_failed"
                /\ tasks'[t].error # "none"]_vars
    /\ [][\A t \in Tasks :
            (tasks[t].pc \notin {"loading", "encoding"}
                /\ tasks'[t].pc \in {"loading", "encoding"}
                /\ model = NoModel) => tasks'[t].pc = "loading"]_vars
    /\ [](\A t \in Tasks : tasks[t].pc = "encoding" => model # NoModel)
    /\ \A t \in Tasks : (tasks[t].pc = "loading") ~> (tasks[t].pc # "loading")

====
